---- MODULE Spec2Model ----
(***************************************************************************)
(* A model of Webscraper.py: the crawl of one site (scrape_website and the *)
(* scrape_single_page jobs it hands to a thread pool), the extraction of   *)
(* contacts, mission sentences and keyword counts from each page, and the  *)
(* ranking of the counted causes.                                          *)
(*                                                                         *)
(* Text is a sequence of one-character strings, so that `in`, lower() and  *)
(* strip() are computed on characters.  A URL is a sequence of tokens      *)
(* (scheme, host labels, separators, path segments) chosen so that one     *)
(* token is never part of another: `base_url in link` on tokens is the     *)
(* substring test on the characters.                                       *)
(***************************************************************************)
EXTENDS Naturals, Sequences, FiniteSets

(***************************************************************************)
(* Bounds of the model.                                                    *)
(***************************************************************************)
\* The largest number of links find_links returns for the seed page.
MaxLinks == 3
\* The number of classify_cause_and_count calls of the unit specification.
MaxSentences == 3
\* The longest run of spaces before and after a sentence of the text specification.
MaxPad == 1

(***************************************************************************)
(* Strings.                                                                *)
(***************************************************************************)
UpperAlphabet == <<"A", "B", "C", "D", "E", "F", "G", "H", "I", "J", "K", "L", "M", "N", "O", "P", "Q", "R", "S", "T", "U", "V", "W", "X", "Y", "Z">>
LowerAlphabet == <<"a", "b", "c", "d", "e", "f", "g", "h", "i", "j", "k", "l", "m", "n", "o", "p", "q", "r", "s", "t", "u", "v", "w", "x", "y", "z">>
Whitespace == {" ", "\t", "\n"}
Digits == {"0", "1", "2", "3", "4", "5", "6", "7", "8", "9"}

\* str.lower() on one character.
LowerChar(c) ==
    IF \E i \in 1..Len(UpperAlphabet) : UpperAlphabet[i] = c
    THEN LowerAlphabet[CHOOSE i \in 1..Len(UpperAlphabet) : UpperAlphabet[i] = c]
    ELSE c

\* str.lower()
Lower(s) == [i \in 1..Len(s) |-> LowerChar(s[i])]

\* `k in s` for strings: k occurs in s as a contiguous run.
Contains(s, k) ==
    \E i \in 1..(Len(s) + 1) :
        /\ i + Len(k) - 1 <= Len(s)
        /\ \A j \in 1..Len(k) : s[i + j - 1] = k[j]

\* str.strip(): leading and trailing whitespace removed.
RECURSIVE LStrip(_)
LStrip(s) == IF s # <<>> /\ Head(s) \in Whitespace THEN LStrip(Tail(s)) ELSE s
RECURSIVE RStrip(_)
RStrip(s) ==
    IF s # <<>> /\ s[Len(s)] \in Whitespace THEN RStrip(SubSeq(s, 1, Len(s) - 1)) ELSE s
Strip(s) == RStrip(LStrip(s))

\* str.replace(c, ""): every occurrence of the character c removed.
RemoveChar(s, c) == SelectSeq(s, LAMBDA x : x # c)

(***************************************************************************)
(* filter_valid_sentence                                                   *)
(***************************************************************************)
min_length == 10
max_length == 200

common_invalid_phrases ==
    << <<"l", "e", "a", "r", "n", " ", "m", "o", "r", "e">>, <<"r", "e", "a", "d", " ", "m", "o", "r", "e">>, <<"c", "u", "r", "r", "e", "n", "t", " ", "c", "o", "a", "l", "i", "t", "i", "o", "n", "s">>, <<"d", "e", "t", "a", "i", "l", "s">>, <<"o", "v", "e", "r", "v", "i", "e", "w">>,
       <<"4", "0", "4">>, <<"p", "a", "g", "e", " ", "n", "o", "t", " ", "f", "o", "u", "n", "d">>, <<"e", "r", "r", "o", "r">>, <<"n", "o", "t", " ", "a", "v", "a", "i", "l", "a", "b", "l", "e">> >>

\* The length bounds taken as exclusive.
filter_valid_sentence_Exclusive(sentence) ==
    IF Len(Strip(sentence)) <= min_length \/ Len(Strip(sentence)) >= max_length
    THEN FALSE
    ELSE IF \E p \in 1..Len(common_invalid_phrases) :
                Contains(Lower(sentence), common_invalid_phrases[p])
         THEN FALSE
         ELSE TRUE

filter_valid_sentence(sentence) ==
    IF Len(Strip(sentence)) < min_length \/ Len(Strip(sentence)) > max_length
    THEN FALSE
    ELSE IF \E p \in 1..Len(common_invalid_phrases) :
                Contains(Lower(sentence), common_invalid_phrases[p])
         THEN FALSE
         ELSE TRUE

(***************************************************************************)
(* classify_cause_and_count                                                *)
(***************************************************************************)
\* The taxonomy, in the order the dict literal declares it.
categories ==
    << [name |-> "environment",
        keywords |-> << <<"e", "n", "v", "i", "r", "o", "n", "m", "e", "n", "t">>, <<"c", "l", "i", "m", "a", "t", "e">>, <<"n", "a", "t", "u", "r", "e">>, <<"s", "u", "s", "t", "a", "i", "n", "a", "b", "i", "l", "i", "t", "y">>,
                        <<"c", "o", "n", "s", "e", "r", "v", "a", "t", "i", "o", "n">>, <<"g", "r", "e", "e", "n">> >>],
       [name |-> "animal",
        keywords |-> << <<"a", "n", "i", "m", "a", "l">>, <<"w", "i", "l", "d", "l", "i", "f", "e">>, <<"p", "e", "t">>, <<"s", "p", "e", "c", "i", "e", "s">>, <<"h", "a", "b", "i", "t", "a", "t">> >>],
       [name |-> "education",
        keywords |-> << <<"e", "d", "u", "c", "a", "t", "i", "o", "n">>, <<"l", "e", "a", "r", "n", "i", "n", "g">>, <<"t", "e", "a", "c", "h", "i", "n", "g">>, <<"s", "c", "h", "o", "o", "l">>, <<"s", "t", "u", "d", "e", "n", "t", "s">>,
                        <<"l", "i", "t", "e", "r", "a", "c", "y">> >>],
       [name |-> "healthcare",
        keywords |-> << <<"h", "e", "a", "l", "t", "h">>, <<"m", "e", "d", "i", "c", "i", "n", "e">>, <<"c", "a", "r", "e">>, <<"h", "o", "s", "p", "i", "t", "a", "l">>, <<"d", "i", "s", "e", "a", "s", "e">>,
                        <<"m", "e", "n", "t", "a", "l", " ", "h", "e", "a", "l", "t", "h">> >>],
       [name |-> "poverty",
        keywords |-> << <<"p", "o", "v", "e", "r", "t", "y">>, <<"h", "u", "n", "g", "e", "r">>, <<"h", "o", "m", "e", "l", "e", "s", "s">>, <<"b", "a", "s", "i", "c", " ", "n", "e", "e", "d", "s">>,
                        <<"f", "o", "o", "d", " ", "s", "e", "c", "u", "r", "i", "t", "y">>, <<"i", "n", "e", "q", "u", "a", "l", "i", "t", "y">> >>],
       [name |-> "human_rights",
        keywords |-> << <<"h", "u", "m", "a", "n", " ", "r", "i", "g", "h", "t", "s">>, <<"j", "u", "s", "t", "i", "c", "e">>, <<"f", "r", "e", "e", "d", "o", "m">>, <<"e", "q", "u", "a", "l", "i", "t", "y">>,
                        <<"c", "i", "v", "i", "l", " ", "r", "i", "g", "h", "t", "s">> >>],
       [name |-> "children",
        keywords |-> << <<"c", "h", "i", "l", "d", "r", "e", "n">>, <<"k", "i", "d", "s">>, <<"y", "o", "u", "t", "h">>, <<"a", "d", "o", "l", "e", "s", "c", "e", "n", "t", "s">>,
                        <<"f", "u", "t", "u", "r", "e", " ", "g", "e", "n", "e", "r", "a", "t", "i", "o", "n">> >>] >>

CategoryNames == {categories[c].name : c \in 1..Len(categories)}

\* The keyword counter is a Counter, a dict: its items in insertion order, a key
\* being inserted by the first store to it.
EmptyCounter == <<>>

\* keyword_counter[category] as read: Counter.__missing__ gives 0 for a key that
\* is not there and does not insert it.
CounterGet(counter, category) ==
    IF \E i \in 1..Len(counter) : counter[i].key = category
    THEN counter[CHOOSE i \in 1..Len(counter) : counter[i].key = category].n
    ELSE 0

\* keyword_counter[category] = v: in place for a key that is there, at the end
\* for a new one.
CounterSet(counter, category, v) ==
    IF \E i \in 1..Len(counter) : counter[i].key = category
    THEN [i \in 1..Len(counter) |->
            IF counter[i].key = category THEN [key |-> category, n |-> v] ELSE counter[i]]
    ELSE Append(counter, [key |-> category, n |-> v])

\* The inner loop with a break after the first keyword found.
MatchingKeywords_Break(keywords, sentence) ==
    IF \E k \in 1..Len(keywords) : Contains(Lower(sentence), keywords[k])
    THEN <<keywords[CHOOSE k \in 1..Len(keywords) :
                       /\ Contains(Lower(sentence), keywords[k])
                       /\ \A j \in 1..(k - 1) : ~Contains(Lower(sentence), keywords[j])]>>
    ELSE <<>>

\* The keywords of one category that the inner loop finds in the sentence: the
\* loop has no break, so every keyword that occurs counts.
MatchingKeywords(keywords, sentence) ==
    SelectSeq(keywords, LAMBDA k : Contains(Lower(sentence), k))

\* The categories classify_cause_and_count increments for one sentence, one entry
\* per `keyword_counter[category] += 1` it executes, in execution order.
RECURSIVE IncrementsFrom(_, _)
IncrementsFrom(c, sentence) ==
    IF c > Len(categories) THEN <<>>
    ELSE [i \in 1..Len(MatchingKeywords(categories[c].keywords, sentence)) |->
             categories[c].name]
         \o IncrementsFrom(c + 1, sentence)
Increments(sentence) == IncrementsFrom(1, sentence)

\* A run of `keyword_counter[category] += 1` by one thread alone.
RECURSIVE ApplyIncrements(_, _)
ApplyIncrements(incs, counter) ==
    IF incs = <<>> THEN counter
    ELSE ApplyIncrements(Tail(incs),
                         CounterSet(counter, Head(incs), CounterGet(counter, Head(incs)) + 1))

classify_cause_and_count(sentence, keyword_counter_) ==
    ApplyIncrements(Increments(sentence), keyword_counter_)

(***************************************************************************)
(* get_main_and_secondary_causes                                           *)
(***************************************************************************)
\* A sort that puts the later of two items of equal count first.
RECURSIVE InsertByCount_Unstable(_, _)
InsertByCount_Unstable(item, sorted) ==
    IF sorted = <<>> THEN <<item>>
    ELSE IF Head(sorted).n > item.n
         THEN <<Head(sorted)>> \o InsertByCount_Unstable(item, Tail(sorted))
         ELSE <<item>> \o sorted

\* sorted(items, key=count, reverse=True) is stable: items of equal count keep
\* the order they have in the dict.  One item inserted into a sorted list, after
\* every item whose count is not smaller.
RECURSIVE InsertByCount(_, _)
InsertByCount(item, sorted) ==
    IF sorted = <<>> THEN <<item>>
    ELSE IF Head(sorted).n >= item.n
         THEN <<Head(sorted)>> \o InsertByCount(item, Tail(sorted))
         ELSE <<item>> \o sorted

\* The items as the dict holds them, not sorted.
most_common_Unsorted(counter) == counter

\* Counter.most_common() with no argument.
RECURSIVE MostCommonFrom(_, _, _)
MostCommonFrom(counter, i, sorted) ==
    IF i > Len(counter) THEN sorted
    ELSE MostCommonFrom(counter, i + 1, InsertByCount(counter[i], sorted))
most_common(counter) == MostCommonFrom(counter, 1, <<>>)

get_main_and_secondary_causes(counter) ==
    LET sorted_causes == most_common(counter)
        main_cause == IF sorted_causes # <<>> THEN sorted_causes[1].key ELSE "None"
        secondary_cause == IF Len(sorted_causes) > 1 THEN sorted_causes[2].key ELSE "None"
    IN  <<main_cause, secondary_cause>>

(***************************************************************************)
(* extract_information: what it computes from one page before it touches   *)
(* the shared state.  A page is what the regular expressions and split('.')*)
(* find in its text: the e-mail candidates, the phone candidates, the       *)
(* clauses holding "mission", and the '.'-separated sentences.              *)
(***************************************************************************)
\* The mission sentence list is capped at 3 entries.
MissionCap == 3

\* not any(char in email for char in ['?', '0', '_'])
ValidEmail(email) == ~ \E i \in 1..Len(email) : email[i] \in {"?", "0", "_"}

\* re.match(r'\d', phone) and len(phone.replace("-", "").replace(" ", "")) >= 7
ValidPhone(phone) ==
    /\ phone # <<>> /\ phone[1] \in Digits
    /\ Len(RemoveChar(RemoveChar(phone, "-"), " ")) >= 7

SeqToSet(s) == {s[i] : i \in 1..Len(s)}

valid_emails(page) == SeqToSet(SelectSeq(page.emails, ValidEmail))
valid_phones(page) == SeqToSet(SelectSeq(page.phones, ValidPhone))

\* [sentence.strip() for sentence in mission_matches if filter_valid_sentence(sentence)]
RECURSIVE StripAll(_)
StripAll(ss) == IF ss = <<>> THEN <<>> ELSE <<Strip(Head(ss))>> \o StripAll(Tail(ss))
valid_mission_sentences(page) ==
    StripAll(SelectSeq(page.mission_matches, filter_valid_sentence))

\* A sort that puts the longest first.
RECURSIVE InsertByLen_Descending(_, _)
InsertByLen_Descending(s, sorted) ==
    IF sorted = <<>> THEN <<s>>
    ELSE IF Len(Head(sorted)) >= Len(s)
         THEN <<Head(sorted)>> \o InsertByLen_Descending(s, Tail(sorted))
         ELSE <<s>> \o sorted

\* sorted(valid_mission_sentences, key=len): stable, shortest first.
RECURSIVE InsertByLen(_, _)
InsertByLen(s, sorted) ==
    IF sorted = <<>> THEN <<s>>
    ELSE IF Len(Head(sorted)) <= Len(s)
         THEN <<Head(sorted)>> \o InsertByLen(s, Tail(sorted))
         ELSE <<s>> \o sorted
RECURSIVE SortByLenFrom(_, _, _)
SortByLenFrom(ss, i, sorted) ==
    IF i > Len(ss) THEN sorted
    ELSE SortByLenFrom(ss, i + 1, InsertByLen(ss[i], sorted))
SortedMission(page) == SortByLenFrom(valid_mission_sentences(page), 1, <<>>)

\* The loop over sorted(valid_mission_sentences) run by one thread alone: append
\* while the list is shorter than the cap, break when it is not.
RECURSIVE AppendMission(_, _)
AppendMission(sorted, list) ==
    IF sorted = <<>> THEN list
    ELSE IF Len(list) < MissionCap
         THEN AppendMission(Tail(sorted), Append(list, Strip(Head(sorted))))
         ELSE list

\* The increments of the loop over text.split('.'): those of every sentence that
\* passes filter_valid_sentence, in order.
RECURSIVE PageIncrementsFrom(_, _)
PageIncrementsFrom(sentences, i) ==
    IF i > Len(sentences) THEN <<>>
    ELSE (IF filter_valid_sentence(sentences[i]) THEN Increments(sentences[i]) ELSE <<>>)
         \o PageIncrementsFrom(sentences, i + 1)
PageIncrements(page) == PageIncrementsFrom(page.sentences, 1)

(***************************************************************************)
(* The site: the seed URL, the links find_links can return for its page,   *)
(* and the page behind each URL.                                           *)
(***************************************************************************)
SeedUrl == <<"http://", "a.org">>
AboutUrl == <<"http://", "a.org", "/", "about">>
TeamUrl == <<"http://", "a.org", "/", "team">>
\* Another site.
OtherUrl == <<"http://", "b.org", "/", "about">>
\* Another site whose URL starts with the seed URL.
EvilUrl == <<"http://", "a.org", ".evil.com", "/">>

LinkUniverse == {SeedUrl, AboutUrl, TeamUrl, OtherUrl, EvilUrl}

\* ThreadPoolExecutor(max_workers=10)
max_workers == 10

\* A seed page with one more link than the pool has workers, to pages of the site
\* that do not load: every fetch of one fails.
DeadNames == <<"pa", "pb", "pc", "pd", "pe", "pf", "pg", "ph", "pi", "pj", "pk", "pl">>
DeadLinks == {<<"http://", "a.org", "/", DeadNames[k]>> : k \in 1..(max_workers + 1)}

AllUrls == LinkUniverse \cup {SeedUrl} \cup DeadLinks

SeedPage ==
    [emails |-> << <<"i", "n", "f", "o", "@", "a", ".", "o", "r", "g">> >>,
     phones |-> << <<"5", "5", "5", "-", "1", "2", "3", "4">> >>,
     mission_matches |-> << <<" ", "O", "u", "r", " ", "m", "i", "s", "s", "i", "o", "n", " ", "i", "s", " ", "t", "o", " ", "p", "r", "o", "t", "e", "c", "t", " ", "w", "i", "l", "d", "l", "i", "f", "e", " ", "a", "n", "d", " ", "n", "a", "t", "u", "r", "e", ".">>,
                            <<"M", "i", "s", "s", "i", "o", "n", ".">>,
                            <<" ", "R", "e", "a", "d", " ", "m", "o", "r", "e", " ", "a", "b", "o", "u", "t", " ", "o", "u", "r", " ", "m", "i", "s", "s", "i", "o", "n", "!">> >>,
     sentences |-> << <<"W", "e", " ", "p", "r", "o", "t", "e", "c", "t", " ", "w", "i", "l", "d", "l", "i", "f", "e", " ", "a", "n", "d", " ", "n", "a", "t", "u", "r", "e">>, <<" ", "S", "h", "o", "r", "t">> >>]
AboutPage ==
    [emails |-> << <<"j", "a", "n", "e", ".", "d", "o", "e", "@", "a", ".", "o", "r", "g">>, <<"a", "_", "b", "@", "a", ".", "o", "r", "g">> >>,
     phones |-> << <<"+", "1", " ", "5", "5", "5", " ", "1", "2", "3", "4">>, <<"5", "5", "5", ".", "1", "2", "3", ".", "4", "5", "6", "7">> >>,
     mission_matches |-> << <<" ", "L", "e", "a", "r", "n", " ", "m", "o", "r", "e", " ", "a", "b", "o", "u", "t", " ", "o", "u", "r", " ", "m", "i", "s", "s", "i", "o", "n", ".">>, <<" ", "O", "u", "r", " ", "m", "i", "s", "s", "i", "o", "n", " ", "i", "s", " ", "c", "l", "i", "m", "a", "t", "e", " ", "a", "c", "t", "i", "o", "n", ".">> >>,
     sentences |-> << <<"O", "u", "r", " ", "C", "l", "i", "m", "a", "t", "e", " ", "w", "o", "r", "k">>, <<" ", "R", "e", "a", "d", " ", "m", "o", "r", "e", " ", "a", "b", "o", "u", "t", " ", "n", "a", "t", "u", "r", "e">> >>]
TeamPage ==
    [emails |-> << <<"b", "o", "b", "@", "a", ".", "o", "r", "g">>, <<"i", "n", "f", "o", "@", "a", ".", "o", "r", "g">> >>,
     phones |-> << <<"5", "5", "5", "-", "9", "8", "7", "6">>, <<"1", "2">> >>,
     mission_matches |-> << <<" ", "T", "e", "a", "m", " ", "w", "i", "t", "h", " ", "a", " ", "m", "i", "s", "s", "i", "o", "n", ",", " ", "a", "n", "d", " ", "w", "i", "t", "h", " ", "a", " ", "p", "l", "a", "n", "!">>, <<" ", "T", "e", "a", "m", " ", "w", "i", "t", "h", " ", "a", " ", "m", "i", "s", "s", "i", "o", "n", "!">> >>,
     sentences |-> << <<" ", "T", "h", "e", " ", "c", "l", "i", "m", "a", "t", "e", " ", "t", "e", "a", "m">> >>]
OtherPage ==
    [emails |-> << <<"o", "@", "b", ".", "o", "r", "g">> >>,
     phones |-> <<>>,
     mission_matches |-> << <<" ", "T", "h", "e", "i", "r", " ", "m", "i", "s", "s", "i", "o", "n", " ", "i", "s", " ", "t", "h", "e", "i", "r", "s", ".">> >>,
     sentences |-> << <<"T", "h", "e", "i", "r", " ", "s", "c", "h", "o", "o", "l", " ", "f", "o", "r", " ", "k", "i", "d", "s">> >>]
EvilPage ==
    [emails |-> << <<"e", "v", "e", "@", "e", "v", "i", "l", ".", "c", "o", "m">> >>,
     phones |-> << <<"5", "5", "5", " ", "0", "0", "0", " ", "1", "1", "1", "1">> >>,
     mission_matches |-> <<>>,
     sentences |-> << <<"N", "o", " ", "w", "i", "l", "d", "l", "i", "f", "e", " ", "h", "e", "r", "e">> >>]

\* Nothing is read of a page that does not load.
DeadPage == [emails |-> <<>>, phones |-> <<>>, mission_matches |-> <<>>, sentences |-> <<>>]

PageOf(url) ==
    CASE url = SeedUrl -> SeedPage
      [] url = AboutUrl -> AboutPage
      [] url = TeamUrl -> TeamPage
      [] url = OtherUrl -> OtherPage
      [] url = EvilUrl -> EvilPage
      [] url \in DeadLinks -> DeadPage

\* What extract_information computes from each page, computed once.
PageEmails == [u \in AllUrls |-> valid_emails(PageOf(u))]
PagePhones == [u \in AllUrls |-> valid_phones(PageOf(u))]
PageMission == [u \in AllUrls |-> SortedMission(PageOf(u))]
PageIncs == [u \in AllUrls |-> PageIncrements(PageOf(u))]

(***************************************************************************)
(* The state of one scrape_website call.                                   *)
(***************************************************************************)
VARIABLES
    mpc,                \* where scrape_website is
    main_page_content,  \* "unfetched", "ok" (the page text) or "none" (None)
    main_page_links,    \* the set find_links returned
    visited,
    emails,             \* contacts["emails"]
    phones,             \* contacts["phones"]
    mission_sentences,
    keyword_counter,
    jobs,               \* the futures: link -> the state of its scrape_single_page call
    fetches,            \* url -> the number of fetch_page_content calls made for it
    report,             \* the CSV files written, one entry per file: none before the end
    unit                \* the unit specification's calls of the pure functions

vars == <<mpc, main_page_content, main_page_links, visited, emails, phones,
          mission_sentences, keyword_counter, jobs, fetches, report, unit>>

shared == <<visited, emails, phones, mission_sentences, keyword_counter>>

NoUnit ==
    [pc |-> "off", sentence |-> <<>>, calls |-> 0, causes |-> <<"None", "None">>,
     accepted |-> FALSE]

\* visited = set(); contacts = {...}; mission_sentences = []; keyword_counter = Counter()
Locals ==
    /\ main_page_content = "unfetched"
    /\ main_page_links = {}
    /\ visited = {}
    /\ emails = {}
    /\ phones = {}
    /\ mission_sentences = <<>>
    /\ keyword_counter = EmptyCounter
    /\ jobs = <<>>
    /\ fetches = [u \in AllUrls |-> 0]
    /\ report = <<>>

Init ==
    /\ mpc = "fetch_seed"
    /\ Locals
    /\ unit = NoUnit

base_url == SeedUrl

(***************************************************************************)
(* scrape_website, up to the pool.                                         *)
(***************************************************************************)
\* The failure branch without its return.
SeedFailed_Continue == "mark_seed"

\* What scrape_website does when the seed page did not load: it returns.
SeedFailed == "aborted"

\* main_page_content = fetch_page_content(base_url, headers); if not ...: return
FetchSeed ==
    /\ mpc = "fetch_seed"
    /\ fetches' = [fetches EXCEPT ![base_url] = @ + 1]
    /\ \E ok \in BOOLEAN :
         /\ main_page_content' = IF ok THEN "ok" ELSE "none"
         /\ mpc' = IF ok THEN "mark_seed" ELSE SeedFailed
    /\ UNCHANGED <<main_page_links, shared, jobs, report, unit>>

\* visited.add(base_url)
MarkSeed ==
    /\ mpc = "mark_seed"
    /\ visited' = visited \cup {base_url}
    /\ mpc' = "find_links"
    /\ UNCHANGED <<main_page_content, main_page_links, emails, phones, mission_sentences,
                   keyword_counter, jobs, fetches, report, unit>>

\* main_page_links = find_links(main_page_content, base_url): a set of absolute URLs
FindLinks ==
    /\ mpc = "find_links"
    /\ \E links \in SUBSET LinkUniverse :
         /\ Cardinality(links) <= MaxLinks
         /\ main_page_links' = links
    /\ mpc' = "extract_seed"
    /\ UNCHANGED <<main_page_content, shared, jobs, fetches, report, unit>>

\* The pool started without the seed page's extraction.
ExtractSeed_Skipped ==
    /\ mpc = "extract_seed"
    /\ mpc' = "submit"
    /\ UNCHANGED <<main_page_content, main_page_links, shared, jobs, fetches, report, unit>>

\* extract_information(main_page_content, ...), run by the main thread before the
\* pool exists.
ExtractSeed ==
    /\ mpc = "extract_seed"
    /\ emails' = emails \cup PageEmails[base_url]
    /\ phones' = phones \cup PagePhones[base_url]
    /\ mission_sentences' = AppendMission(PageMission[base_url], mission_sentences)
    /\ keyword_counter' = ApplyIncrements(PageIncs[base_url], keyword_counter)
    /\ mpc' = "submit"
    /\ UNCHANGED <<main_page_content, main_page_links, visited, jobs, fetches, report, unit>>

\* A crawl that follows the links of the linked pages too: /about links to /team,
\* /team to /about and to the other sites.
LinksOn(url) ==
    CASE url = AboutUrl -> {TeamUrl}
      [] url = TeamUrl -> {AboutUrl, OtherUrl, EvilUrl}
      [] OTHER -> {}
SubmittedLinks_Deep == main_page_links \cup UNION {LinksOn(l) : l \in main_page_links}

\* The links filtered before submission.
SubmittedLinks_Filtered ==
    {l \in main_page_links : l \notin visited /\ Contains(l, base_url)}

\* The links a future is created for: every link of the seed page.
SubmittedLinks == main_page_links

NewJob == [pc |-> "queued", page_content |-> "unfetched", i |-> 0, tmp |-> 0]

\* futures = [executor.submit(scrape_single_page, link, ...) for link in main_page_links]
\* A submitted job that has not started has no effect, so the submissions are one
\* step.
Submit ==
    /\ mpc = "submit"
    /\ jobs' = [l \in SubmittedLinks |-> NewJob]
    /\ mpc' = "join"
    /\ UNCHANGED <<main_page_content, main_page_links, shared, fetches, report, unit>>

(***************************************************************************)
(* scrape_single_page, one call per job, run by a pool thread.  Threads    *)
(* switch between the reads and the writes of the shared objects; one call  *)
(* of a built-in method (set.add, set.update, list.append) is one step.     *)
(***************************************************************************)
InFlight == {l \in DOMAIN jobs : jobs[l].pc \notin {"queued", "done"}}

\* The condition without its test of the visited set.
PassesCheck_NoVisited(link) == Contains(link, base_url)

\* if link not in visited and base_url in link
PassesCheck(link) == link \notin visited /\ Contains(link, base_url)

\* Where a job continues with the i-th increment of its page, and after the last.
CountStage(link, i) ==
    IF i <= Len(PageIncs[link])
    THEN [pc |-> "count_read", page_content |-> "ok", i |-> i, tmp |-> 0]
    ELSE [pc |-> "done", page_content |-> "ok", i |-> 0, tmp |-> 0]

\* Where a job continues with the i-th sorted mission sentence of its page, and
\* after the last.
MissionStage(link, i) ==
    IF i <= Len(PageMission[link])
    THEN [pc |-> "mission_check", page_content |-> "ok", i |-> i, tmp |-> 0]
    ELSE CountStage(link, 1)

\* A thread for every job, however many there are.
WorkerIdle_Unbounded == TRUE

\* A job starts when one of the pool's max_workers threads is not running a job.
WorkerIdle == Cardinality(InFlight) < max_workers

\* A pool thread takes the job and evaluates the condition.
Check(link) ==
    /\ jobs[link].pc = "queued"
    /\ WorkerIdle
    /\ jobs' = [jobs EXCEPT ![link].pc = IF PassesCheck(link) THEN "claim" ELSE "done"]
    /\ UNCHANGED <<mpc, main_page_content, main_page_links, shared, fetches, report, unit>>

\* The job goes on to fetch without the visited.add.
Claim_NoAdd(link) ==
    /\ jobs[link].pc = "claim"
    /\ jobs' = [jobs EXCEPT ![link].pc = "fetch"]
    /\ UNCHANGED <<mpc, main_page_content, main_page_links, shared, fetches, report, unit>>

\* visited.add(link)
Claim(link) ==
    /\ jobs[link].pc = "claim"
    /\ visited' = visited \cup {link}
    /\ jobs' = [jobs EXCEPT ![link].pc = "fetch"]
    /\ UNCHANGED <<mpc, main_page_content, main_page_links, emails, phones,
                   mission_sentences, keyword_counter, fetches, report, unit>>

\* The call without the test of page_content: extraction whatever the fetch gave.
AfterFetch_NoTest(ok) ==
    [pc |-> "emails", page_content |-> IF ok THEN "ok" ELSE "none", i |-> 0, tmp |-> 0]

\* A failed fetch that leaves the job unfinished.
AfterFetch_Stuck(ok) ==
    IF ok THEN [pc |-> "emails", page_content |-> "ok", i |-> 0, tmp |-> 0]
    ELSE [pc |-> "failed", page_content |-> "none", i |-> 0, tmp |-> 0]

\* if page_content: extract_information(...); the call returns when the fetch
\* gave None.
AfterFetch(ok) ==
    IF ok THEN [pc |-> "emails", page_content |-> "ok", i |-> 0, tmp |-> 0]
    ELSE [pc |-> "done", page_content |-> "none", i |-> 0, tmp |-> 0]

\* What fetch_page_content can give for a URL: the text or None; None for a page
\* that does not load.
FetchOutcomes(url) == IF url \in DeadLinks THEN {FALSE} ELSE BOOLEAN

\* page_content = fetch_page_content(link, headers); if page_content: ...
Fetch(link) ==
    /\ jobs[link].pc = "fetch"
    /\ fetches' = [fetches EXCEPT ![link] = @ + 1]
    /\ \E ok \in FetchOutcomes(link) : jobs' = [jobs EXCEPT ![link] = AfterFetch(ok)]
    /\ UNCHANGED <<mpc, main_page_content, main_page_links, shared, report, unit>>

\* contacts["emails"].update(valid_emails)
Emails(link) ==
    /\ jobs[link].pc = "emails"
    /\ emails' = emails \cup PageEmails[link]
    /\ jobs' = [jobs EXCEPT ![link].pc = "phones"]
    /\ UNCHANGED <<mpc, main_page_content, main_page_links, visited, phones,
                   mission_sentences, keyword_counter, fetches, report, unit>>

\* contacts["phones"].update(valid_phones)
Phones(link) ==
    /\ jobs[link].pc = "phones"
    /\ phones' = phones \cup PagePhones[link]
    /\ jobs' = [jobs EXCEPT ![link] = MissionStage(link, 1)]
    /\ UNCHANGED <<mpc, main_page_content, main_page_links, visited, emails,
                   mission_sentences, keyword_counter, fetches, report, unit>>

\* if len(mission_sentences) < 3: ... else: break
MissionCheck(link) ==
    /\ jobs[link].pc = "mission_check"
    /\ jobs' = [jobs EXCEPT ![link] =
                  IF Len(mission_sentences) < MissionCap
                  THEN [@ EXCEPT !.pc = "mission_append"]
                  ELSE CountStage(link, 1)]
    /\ UNCHANGED <<mpc, main_page_content, main_page_links, shared, fetches, report, unit>>

\* mission_sentences.append(sentence.strip())
MissionAppend(link) ==
    /\ jobs[link].pc = "mission_append"
    /\ mission_sentences' = Append(mission_sentences, Strip(PageMission[link][jobs[link].i]))
    /\ jobs' = [jobs EXCEPT ![link] = MissionStage(link, jobs[link].i + 1)]
    /\ UNCHANGED <<mpc, main_page_content, main_page_links, visited, emails, phones,
                   keyword_counter, fetches, report, unit>>

\* keyword_counter[category] += 1, its read: the value is on the thread's stack
CountRead(link) ==
    /\ jobs[link].pc = "count_read"
    /\ jobs' = [jobs EXCEPT ![link].pc = "count_write",
                            ![link].tmp = CounterGet(keyword_counter, PageIncs[link][jobs[link].i])]
    /\ UNCHANGED <<mpc, main_page_content, main_page_links, shared, fetches, report, unit>>

\* keyword_counter[category] += 1, its store of the value read plus one
CountWrite(link) ==
    /\ jobs[link].pc = "count_write"
    /\ keyword_counter' = CounterSet(keyword_counter, PageIncs[link][jobs[link].i],
                                     jobs[link].tmp + 1)
    /\ jobs' = [jobs EXCEPT ![link] = CountStage(link, jobs[link].i + 1)]
    /\ UNCHANGED <<mpc, main_page_content, main_page_links, visited, emails, phones,
                   mission_sentences, fetches, report, unit>>

(***************************************************************************)
(* scrape_website, from the end of the with block.                         *)
(***************************************************************************)
\* executor.shutdown(wait=False)
JoinReady_NoWait == TRUE

\* Leaving the with block is executor.shutdown(wait=True): it returns when every
\* submitted job has run to its end.
JoinReady == \A l \in DOMAIN jobs : jobs[l].pc = "done"

Join ==
    /\ mpc = "join"
    /\ JoinReady
    /\ mpc' = "report"
    /\ UNCHANGED <<main_page_content, main_page_links, shared, jobs, fetches, report, unit>>

\* list(s) without the slice.
FirstThree_All(s) == {s}

\* list(s)[:3]: three elements of the set, whichever its iteration yields first;
\* all of them when it has no more than three.
FirstThree(s) ==
    {t \in SUBSET s : Cardinality(t) = IF Cardinality(s) < 3 THEN Cardinality(s) ELSE 3}

\* get_main_and_secondary_causes, the two slices and the rows written to the file.
BuildReport ==
    /\ mpc = "report"
    /\ \E e \in FirstThree(emails), p \in FirstThree(phones) :
         report' = Append(report,
                          [emails |-> e, phones |-> p,
                           causes |-> get_main_and_secondary_causes(keyword_counter),
                           mission_sentences |-> [i \in 1..Len(mission_sentences) |->
                                                     Strip(mission_sentences[i])]])
    /\ mpc' = "done"
    /\ UNCHANGED <<main_page_content, main_page_links, shared, jobs, fetches, unit>>

Next ==
    \/ FetchSeed
    \/ MarkSeed
    \/ FindLinks
    \/ ExtractSeed
    \/ Submit
    \/ \E link \in DOMAIN jobs : Check(link)
    \/ \E link \in DOMAIN jobs : Claim(link)
    \/ \E link \in DOMAIN jobs : Fetch(link)
    \/ \E link \in DOMAIN jobs : Emails(link)
    \/ \E link \in DOMAIN jobs : Phones(link)
    \/ \E link \in DOMAIN jobs : MissionCheck(link)
    \/ \E link \in DOMAIN jobs : MissionAppend(link)
    \/ \E link \in DOMAIN jobs : CountRead(link)
    \/ \E link \in DOMAIN jobs : CountWrite(link)
    \/ Join
    \/ BuildReport

Spec == Init /\ [][Next]_vars

\* The main thread and the pool threads keep running: a step that can be taken is
\* taken.
FairSpec == Spec /\ WF_vars(Next)

(***************************************************************************)
(* The pool specification: the crawl of a seed page that links to more     *)
(* pages than the pool has workers.  The pages do not load, so no job      *)
(* reaches extract_information.  The pool's work queue is first in, first   *)
(* out: the jobs start in the order of their submission, the iteration     *)
(* order of the set of links, taken here to be the order of DeadNames (the *)
(* pages are alike, so every other order gives the same crawl renamed).    *)
(***************************************************************************)
DeadIndex(link) == CHOOSE k \in 1..Len(DeadNames) : link[4] = DeadNames[k]

\* A pool thread takes the job at the head of the work queue.
PoolCheck(link) ==
    /\ \A other \in DOMAIN jobs :
         jobs[other].pc = "queued" => DeadIndex(link) <= DeadIndex(other)
    /\ Check(link)

\* main_page_links = find_links(main_page_content, base_url), for that seed page
PoolFindLinks ==
    /\ mpc = "find_links"
    /\ main_page_links' = DeadLinks
    /\ mpc' = "extract_seed"
    /\ UNCHANGED <<main_page_content, shared, jobs, fetches, report, unit>>

PoolNext ==
    \/ FetchSeed
    \/ MarkSeed
    \/ PoolFindLinks
    \/ ExtractSeed
    \/ Submit
    \/ \E link \in DOMAIN jobs : PoolCheck(link)
    \/ \E link \in DOMAIN jobs : Claim(link)
    \/ \E link \in DOMAIN jobs : Fetch(link)
    \/ Join
    \/ BuildReport

PoolSpec == Init /\ [][PoolNext]_vars

(***************************************************************************)
(* The unit specification: classify_cause_and_count called on a few        *)
(* sentences one after the other, then get_main_and_secondary_causes.      *)
(***************************************************************************)
UnitSentences ==
    { <<"P", "r", "o", "t", "e", "c", "t", " ", "t", "h", "e", " ", "c", "l", "i", "m", "a", "t", "e">>,
      <<"c", "l", "i", "m", "a", "t", "e", " ", "a", "n", "d", " ", "n", "a", "t", "u", "r", "e">>,
      <<"S", "a", "v", "e", " ", "W", "I", "L", "D", "L", "I", "F", "E", " ", "n", "o", "w">>,
      <<"o", "u", "r", " ", "p", "e", "t", " ", "a", "n", "i", "m", "a", "l">>,
      <<"m", "e", "n", "t", "a", "l", " ", "h", "e", "a", "l", "t", "h", " ", "c", "a", "r", "e">>,
      <<"f", "i", "g", "h", "t", " ", "i", "n", "e", "q", "u", "a", "l", "i", "t", "y">>,
      <<"a", " ", "s", "c", "h", "o", "o", "l", " ", "f", "o", "r", " ", "k", "i", "d", "s">>,
      <<"h", "e", "l", "l", "o", " ", "w", "o", "r", "l", "d">> }

UnitInit ==
    /\ mpc = "unit"
    /\ Locals
    /\ unit = [pc |-> "classify", sentence |-> <<>>, calls |-> 0, causes |-> <<"None", "None">>,
               accepted |-> FALSE]

UnitClassify ==
    /\ unit.pc = "classify"
    /\ unit.calls < MaxSentences
    /\ \E s \in UnitSentences :
         /\ keyword_counter' = classify_cause_and_count(s, keyword_counter)
         /\ unit' = [unit EXCEPT !.sentence = s, !.calls = @ + 1]
    /\ UNCHANGED <<mpc, main_page_content, main_page_links, visited, emails, phones,
                   mission_sentences, jobs, fetches, report>>

UnitRank ==
    /\ unit.pc = "classify"
    /\ unit' = [unit EXCEPT !.pc = "ranked",
                            !.causes = get_main_and_secondary_causes(keyword_counter)]
    /\ UNCHANGED <<mpc, main_page_content, main_page_links, shared, jobs, fetches, report>>

UnitNext ==
    \/ UnitClassify
    \/ UnitRank

UnitSpec == UnitInit /\ [][UnitNext]_vars

(***************************************************************************)
(* The text specification: filter_valid_sentence and the phone test of     *)
(* extract_information, each called once on one input.                     *)
(***************************************************************************)
Repeat(c, n) == [i \in 1..n |-> c]

\* Sentences: a run of one letter and a phrase, between runs of spaces.  The
\* lengths are those around the two bounds of filter_valid_sentence.
FilterPhrases ==
    { <<>>, <<"o", "k">>, <<"E", "r", "r", "o", "r">>, <<"L", "e", "a", "r", "n", " ", "M", "o", "r", "e">>, <<"s", "e", "e", " ", "d", "e", "t", "a", "i", "l", "s">>, <<"4", "0", " ", "4">>, <<"N", "o", "t", " ", "A", "v", "a", "i", "l", "a", "b", "l", "e">> }
FillLengths == {0, 7, 8, 9, 10, 11, 187, 189, 190, 195, 198, 199, 200, 201}
FilterInputs ==
    { Repeat(" ", a) \o Repeat("x", n) \o phrase \o Repeat(" ", b) :
        a \in 0..MaxPad, b \in 0..MaxPad, n \in FillLengths, phrase \in FilterPhrases }

\* Phone candidates, as the phone pattern matches them in a text.
PhoneInputs ==
    { <<"5", "5", "5", "-", "1", "2", "3", "4">>, <<"1", "2">>, <<"1", "2", "3", "4", "5", "6">>, <<"1", "2", "3", "4", "5", "6", "7">>, <<"1", "2", "-", "3", "4", "-", "5", "6">>, <<"1", "2", " ", "3", "4", " ", "5", "6", " ", "7">>,
      <<"1", "2", ".", "3", "4", ".", "5", "6">>, <<"1", ".", "2", ".", "3", ".", "4">>, <<"5", "5", "5", ".", "1", "2", "3", ".", "4", "5", "6", "7">>, <<"+", "1", " ", "5", "5", "5", " ", "1", "2", "3", "4">>, <<"(", "5", "5", "5", ")", " ", "1", "2", "3", "-", "4", "5", "6", "7">>,
      <<"1", "(", "2", "3", ")", "4", "5", " ", "6">>, <<"5", "5", "5", " ", "0", "0", "0", " ", "1", "1", "1", "1">> }

TextInit ==
    /\ mpc = "unit"
    /\ Locals
    /\ unit = [pc |-> "text", sentence |-> <<>>, calls |-> 0, causes |-> <<"None", "None">>,
               accepted |-> FALSE]

FilterCall ==
    /\ unit.pc = "text"
    /\ \E s \in FilterInputs :
         unit' = [unit EXCEPT !.pc = "filtered", !.sentence = s, !.calls = 1,
                              !.accepted = filter_valid_sentence(s)]
    /\ UNCHANGED <<mpc, main_page_content, main_page_links, shared, jobs, fetches, report>>

PhoneCall ==
    /\ unit.pc = "text"
    /\ \E phone \in PhoneInputs :
         unit' = [unit EXCEPT !.pc = "phone", !.sentence = phone, !.calls = 1,
                              !.accepted = ValidPhone(phone)]
    /\ UNCHANGED <<mpc, main_page_content, main_page_links, shared, jobs, fetches, report>>

TextNext ==
    \/ FilterCall
    \/ PhoneCall

TextSpec == TextInit /\ [][TextNext]_vars

(***************************************************************************)
(* Definitions the properties are stated with.                             *)
(***************************************************************************)
\* The domain of a URL: its host, the tokens between the scheme and the first
\* "/" or "?".
RECURSIVE HostOf(_)
HostOf(tokens) ==
    IF tokens = <<>> \/ Head(tokens) \in {"/", "?"} THEN <<>>
    ELSE <<Head(tokens)>> \o HostOf(Tail(tokens))
Domain(url) == HostOf(Tail(url))

\* A job that got past the condition of scrape_single_page.
PastCheck(link) == jobs[link].pc \notin {"queued", "done"} \/ jobs[link].page_content # "unfetched"

\* The pool has been left: every statement after the with block.
AfterPool == mpc \in {"report", "done"}

\* The pages whose fetch returned text.
FetchedOk ==
    {u \in AllUrls : u = base_url /\ main_page_content = "ok"}
    \cup {l \in DOMAIN jobs : jobs[l].page_content = "ok"}

Occurrences(seq, x) == Cardinality({i \in 1..Len(seq) : seq[i] = x})

RECURSIVE SumOccurrences(_, _)
SumOccurrences(urls, category) ==
    IF urls = {} THEN 0
    ELSE LET u == CHOOSE x \in urls : TRUE
         IN  Occurrences(PageIncs[u], category) + SumOccurrences(urls \ {u}, category)

\* The number of a category's trigger substrings that occur in the lower-cased
\* sentence.
TriggerCount(c, sentence) ==
    Cardinality({k \in 1..Len(categories[c].keywords) :
                    Contains(Lower(sentence), categories[c].keywords[k])})

DeclarationIndex(category) == CHOOSE c \in 1..Len(categories) : categories[c].name = category
InsertionIndex(category) ==
    CHOOSE i \in 1..Len(keyword_counter) : keyword_counter[i].key = category
CountedCategories == {keyword_counter[i].key : i \in 1..Len(keyword_counter)}
NonZero == {c \in CategoryNames : CounterGet(keyword_counter, c) > 0}

(***************************************************************************)
(* C1: every URL is fetched at most once in a crawl, under every           *)
(* interleaving of the jobs: the seed's link to itself is not fetched      *)
(* again, and a fetch that failed is not repeated.                         *)
(***************************************************************************)
FetchedAtMostOnce ==
    /\ \A u \in AllUrls : fetches[u] <= 1
    /\ main_page_content = "none" => fetches[base_url] = 1
    /\ \A l \in DOMAIN jobs :
         jobs[l].page_content = "none" => jobs[l].pc = "done" /\ fetches[l] = 1

\* The crawl has ended; the seed page linked to itself and to a page whose fetch
\* failed.
FetchedAtMostOnceWitness ==
    /\ mpc = "done"
    /\ base_url \in DOMAIN jobs
    /\ fetches[base_url] = 1
    /\ \E l \in DOMAIN jobs : jobs[l].page_content = "none" /\ fetches[l] = 1
    /\ \E l \in DOMAIN jobs : jobs[l].page_content = "ok" /\ fetches[l] = 1

(***************************************************************************)
(* C2: the shared mission sentence list never holds more than 3 entries.   *)
(***************************************************************************)
MissionListCapped == Len(mission_sentences) <= 3

(***************************************************************************)
(* C3: the report is built after the join: when scrape_website reads the   *)
(* tally, the contact sets and the mission list, every submitted job has   *)
(* run to its end, and what the report holds is still what the shared      *)
(* state holds afterwards.                                                 *)
(***************************************************************************)
ReportAfterJoin ==
    /\ AfterPool => \A l \in DOMAIN jobs : jobs[l].pc = "done"
    /\ report # <<>> => AfterPool
    /\ \A r \in 1..Len(report) :
         /\ report[r].causes = get_main_and_secondary_causes(keyword_counter)
         /\ report[r].mission_sentences = mission_sentences
         /\ report[r].emails \subseteq emails
         /\ report[r].phones \subseteq phones

\* The report was built in a crawl in which a job changed the shared state.
ReportAfterJoinWitness ==
    /\ mpc = "done" /\ Len(report) = 1
    /\ \E l \in DOMAIN jobs : jobs[l].page_content = "ok" /\ PageEmails[l] \subseteq emails

(***************************************************************************)
(* C4: when the seed fetch fails the crawl aborts: nothing is extracted,   *)
(* no link is discovered, no job is submitted, the visited set stays       *)
(* empty and no report is written.                                         *)
(***************************************************************************)
SeedFailureAborts ==
    main_page_content = "none" =>
        /\ mpc = "aborted"
        /\ visited = {}
        /\ main_page_links = {}
        /\ DOMAIN jobs = {}
        /\ emails = {} /\ phones = {}
        /\ mission_sentences = <<>>
        /\ keyword_counter = EmptyCounter
        /\ report = <<>>
        /\ \A u \in AllUrls : fetches[u] = IF u = base_url THEN 1 ELSE 0

SeedFailureAbortsWitness == main_page_content = "none" /\ mpc = "aborted"

(***************************************************************************)
(* C5, as claimed: jobs are dispatched only for the links that are not     *)
(* visited and whose origin is the seed's; a seed page with k such links   *)
(* dispatches exactly k jobs.                                              *)
(***************************************************************************)
JobsOnlyForSameOriginUnvisited ==
    mpc \in {"join", "report", "done"} =>
        /\ DOMAIN jobs = {l \in main_page_links : l # base_url /\ Domain(l) = Domain(base_url)}
        /\ Cardinality(DOMAIN jobs) =
             Cardinality({l \in main_page_links : l # base_url /\ Domain(l) = Domain(base_url)})

(***************************************************************************)
(* C5, amended: a job is dispatched for every link of the seed page; the   *)
(* check runs inside the job, and the jobs that get past it are exactly    *)
(* those whose link is not visited and holds the seed URL as a substring.  *)
(***************************************************************************)
JobPerLinkCheckInside ==
    /\ mpc \in {"join", "report", "done"} => DOMAIN jobs = main_page_links
    /\ \A l \in DOMAIN jobs : PastCheck(l) => l # base_url /\ Contains(l, base_url)
    /\ AfterPool =>
         {l \in DOMAIN jobs : PastCheck(l)} =
            {l \in main_page_links : l # base_url /\ Contains(l, base_url)}

\* The crawl of a seed page with two same-origin links and one cross-origin link
\* has ended: three jobs, two fetches.
JobPerLinkWitness ==
    /\ mpc = "done"
    /\ main_page_links = {AboutUrl, TeamUrl, OtherUrl}
    /\ Cardinality(DOMAIN jobs) = 3
    /\ fetches[AboutUrl] = 1 /\ fetches[TeamUrl] = 1 /\ fetches[OtherUrl] = 0

(***************************************************************************)
(* C6: no URL is fetched whose domain is not the seed's.                   *)
(***************************************************************************)
OnlySeedDomainFetched ==
    \A u \in AllUrls : fetches[u] > 0 => Domain(u) = Domain(base_url)

(***************************************************************************)
(* C7: after the join no increment and no insertion is lost: every         *)
(* category's count is the sum of the increments made for the pages        *)
(* fetched, and the contact sets are the unions of what they yielded.      *)
(***************************************************************************)
NoLostUpdate ==
    AfterPool =>
        /\ \A c \in CategoryNames :
             CounterGet(keyword_counter, c) = SumOccurrences(FetchedOk, c)
        /\ emails = UNION {PageEmails[u] : u \in FetchedOk}
        /\ phones = UNION {PagePhones[u] : u \in FetchedOk}

(***************************************************************************)
(* C8, as claimed: one call of classify_cause_and_count adds 1 to a        *)
(* category when at least one of its triggers occurs in the lower-cased    *)
(* sentence, and 0 otherwise.                                              *)
(***************************************************************************)
OneIncrementPerCategory ==
    [][unit'.calls = unit.calls + 1 =>
         \A c \in 1..Len(categories) :
            CounterGet(keyword_counter', categories[c].name) =
               CounterGet(keyword_counter, categories[c].name)
               + (IF TriggerCount(c, unit'.sentence) > 0 THEN 1 ELSE 0)]_vars

(***************************************************************************)
(* C8, amended: one call of classify_cause_and_count adds to a category    *)
(* the number of its triggers that occur in the lower-cased sentence.      *)
(***************************************************************************)
OneIncrementPerTrigger ==
    [][unit'.calls = unit.calls + 1 =>
         \A c \in 1..Len(categories) :
            CounterGet(keyword_counter', categories[c].name) =
               CounterGet(keyword_counter, categories[c].name)
               + TriggerCount(c, unit'.sentence)]_vars

\* One call on a sentence holding three healthcare triggers and none of another
\* category.
OneIncrementPerTriggerWitness ==
    /\ unit.calls = 1
    /\ unit.sentence = <<"m", "e", "n", "t", "a", "l", " ", "h", "e", "a", "l", "t", "h", " ", "c", "a", "r", "e">>
    /\ keyword_counter = <<[key |-> "healthcare", n |-> 3]>>

(***************************************************************************)
(* C9, as claimed: categories of equal count are ranked in the taxonomy's  *)
(* declaration order.                                                      *)
(***************************************************************************)
TiesByDeclarationOrder ==
    unit.pc = "ranked" =>
        \A c \in CountedCategories :
            /\ (c # unit.causes[1]
                /\ CounterGet(keyword_counter, c) = CounterGet(keyword_counter, unit.causes[1]))
               => DeclarationIndex(unit.causes[1]) < DeclarationIndex(c)
            /\ (c \notin {unit.causes[1], unit.causes[2]}
                /\ CounterGet(keyword_counter, c) = CounterGet(keyword_counter, unit.causes[2]))
               => DeclarationIndex(unit.causes[2]) < DeclarationIndex(c)

(***************************************************************************)
(* C9, amended: categories of equal count are ranked in the order in which *)
(* they were first incremented.                                            *)
(***************************************************************************)
TiesByInsertionOrder ==
    unit.pc = "ranked" =>
        \A c \in CountedCategories :
            /\ (c # unit.causes[1]
                /\ CounterGet(keyword_counter, c) = CounterGet(keyword_counter, unit.causes[1]))
               => InsertionIndex(unit.causes[1]) < InsertionIndex(c)
            /\ (c \notin {unit.causes[1], unit.causes[2]}
                /\ CounterGet(keyword_counter, c) = CounterGet(keyword_counter, unit.causes[2]))
               => InsertionIndex(unit.causes[2]) < InsertionIndex(c)

\* animal was incremented before environment and both have the same count.
TiesByInsertionOrderWitness ==
    /\ unit.pc = "ranked"
    /\ unit.causes = <<"animal", "environment">>
    /\ CounterGet(keyword_counter, "animal") = CounterGet(keyword_counter, "environment")

(***************************************************************************)
(* C10: the primary cause has the largest count and the secondary cause    *)
(* the largest count among the others; the primary is "None" iff no        *)
(* category has a non-zero count, the secondary iff fewer than two have.   *)
(***************************************************************************)
CausesAreTopTwo ==
    unit.pc = "ranked" =>
        LET main == unit.causes[1]
            secondary == unit.causes[2]
        IN  /\ main = "None" <=> NonZero = {}
            /\ secondary = "None" <=> Cardinality(NonZero) < 2
            /\ main # "None" =>
                 /\ main \in NonZero
                 /\ \A c \in CategoryNames :
                      CounterGet(keyword_counter, c) <= CounterGet(keyword_counter, main)
            /\ secondary # "None" =>
                 /\ secondary \in NonZero \ {main}
                 /\ \A c \in CategoryNames \ {main} :
                      CounterGet(keyword_counter, c) <= CounterGet(keyword_counter, secondary)

\* environment:3, animal:1 gives (environment, animal).
CausesAreTopTwoWitness ==
    /\ unit.pc = "ranked"
    /\ CounterGet(keyword_counter, "environment") = 3
    /\ CounterGet(keyword_counter, "animal") = 1
    /\ Cardinality(NonZero) = 2
    /\ unit.causes = <<"environment", "animal">>

(***************************************************************************)
(* C11: a job whose fetch fails changes neither the contact sets nor the   *)
(* mission sentence list nor the keyword tally and ends there; the other   *)
(* jobs run to their end and the report is built.                          *)
(***************************************************************************)
CrawlEnded == mpc = "done" /\ Len(report) = 1 /\ \A l \in DOMAIN jobs : jobs[l].pc = "done"

FailedJobHasNoEffect ==
    /\ [][\A l \in DOMAIN jobs :
             (jobs'[l] # jobs[l] /\ "none" \in {jobs[l].page_content, jobs'[l].page_content})
             => /\ jobs'[l].pc = "done"
                /\ UNCHANGED <<emails, phones, mission_sentences, keyword_counter>>]_vars
    /\ (\E l \in DOMAIN jobs : jobs[l].page_content = "none") ~> CrawlEnded

\* The crawl has ended with a job whose fetch failed and a job that extracted
\* its page.
FailedJobHasNoEffectWitness ==
    /\ CrawlEnded
    /\ \E l \in DOMAIN jobs : jobs[l].page_content = "none" /\ ~(PageEmails[l] \subseteq emails)
    /\ \E l \in DOMAIN jobs : jobs[l].page_content = "ok" /\ PageEmails[l] \subseteq emails

(***************************************************************************)
(* C12: at every moment of a crawl at most 10 link jobs are in flight,     *)
(* whatever the number of links.                                           *)
(***************************************************************************)
Running == {l \in DOMAIN jobs : jobs[l].pc \notin {"queued", "done"}}

AtMostTenInFlight == Cardinality(Running) <= 10

\* Ten jobs are in flight and an eleventh waits in the queue.
AtMostTenInFlightWitness ==
    /\ Cardinality(Running) = 10
    /\ \E l \in DOMAIN jobs : jobs[l].pc = "queued"

(***************************************************************************)
(* C13: the seed page is fetched, marked visited and extracted before any  *)
(* pool job starts: until the jobs are submitted no link is fetched or     *)
(* claimed, and when a job exists the seed's extraction is in the shared   *)
(* state.                                                                  *)
(***************************************************************************)
SeedBeforePool ==
    /\ mpc \notin {"join", "report", "done"} =>
         /\ DOMAIN jobs = {}
         /\ visited \subseteq {base_url}
         /\ \A u \in AllUrls \ {base_url} : fetches[u] = 0
    /\ DOMAIN jobs # {} =>
         /\ main_page_content = "ok" /\ fetches[base_url] = 1
         /\ base_url \in visited
         /\ PageEmails[base_url] \subseteq emails
         /\ PagePhones[base_url] \subseteq phones
         /\ Len(mission_sentences) >= Len(PageMission[base_url])
         /\ \A i \in 1..Len(PageMission[base_url]) :
              mission_sentences[i] = PageMission[base_url][i]
         /\ \A c \in CategoryNames :
              CounterGet(keyword_counter, c) >= Occurrences(PageIncs[base_url], c)

\* The first step of a job: nothing but the seed's extraction is in the shared
\* state.
SeedBeforePoolWitness ==
    /\ \E l \in DOMAIN jobs : jobs[l].pc = "claim"
    /\ \A l \in DOMAIN jobs : jobs[l].pc \in {"queued", "claim"}
    /\ emails = PageEmails[base_url] /\ emails # {}
    /\ visited = {base_url}

(***************************************************************************)
(* C14: when the seed fetch succeeds the crawl terminates: every submitted *)
(* job completes and the report is built, once, and never before every job *)
(* has completed.                                                          *)
(***************************************************************************)
CrawlTerminates ==
    /\ (main_page_content = "ok") ~> CrawlEnded
    /\ [](report # <<>> => CrawlEnded)
    /\ [][report # <<>> => report' = report]_vars

\* The crawl has ended after three jobs, one of which extracted its page.
CrawlTerminatesWitness ==
    /\ CrawlEnded
    /\ Cardinality(DOMAIN jobs) = 3
    /\ \E l \in DOMAIN jobs : jobs[l].page_content = "ok"

(***************************************************************************)
(* C15: filter_valid_sentence(s) is false if and only if the trimmed       *)
(* length of s is below 10 or above 200 or the lower-cased s holds a       *)
(* blacklisted phrase; it changes nothing.                                 *)
(***************************************************************************)
\* The length of s between its first and its last character that is not
\* whitespace.
TrimmedLength(s) ==
    LET solid == {i \in 1..Len(s) : s[i] \notin Whitespace}
    IN  IF solid = {} THEN 0
        ELSE (CHOOSE i \in solid : \A j \in solid : j <= i)
             - (CHOOSE i \in solid : \A j \in solid : i <= j) + 1

Blacklisted(s) ==
    \E p \in 1..Len(common_invalid_phrases) : Contains(Lower(s), common_invalid_phrases[p])

FilterRejectsExactly ==
    unit.pc = "filtered" =>
        /\ unit.accepted = FALSE <=>
             \/ TrimmedLength(unit.sentence) < 10
             \/ TrimmedLength(unit.sentence) > 200
             \/ Blacklisted(unit.sentence)
        /\ Locals

\* A sentence of trimmed length 200 between spaces is accepted.
FilterRejectsExactlyWitness ==
    /\ unit.pc = "filtered"
    /\ unit.accepted
    /\ TrimmedLength(unit.sentence) = 200
    /\ Len(unit.sentence) > 200

(***************************************************************************)
(* C20: a phone candidate is accepted if and only if its first character   *)
(* is a digit and it holds at least 7 digits.                              *)
(***************************************************************************)
DigitCount(s) == Cardinality({i \in 1..Len(s) : s[i] \in Digits})

PhoneAcceptedIffSevenDigits ==
    unit.pc = "phone" =>
        (unit.accepted <=>
            unit.sentence # <<>> /\ unit.sentence[1] \in Digits /\ DigitCount(unit.sentence) >= 7)

(***************************************************************************)
(* C16: the report holds at most 3 e-mail rows and at most 3 phone rows,   *)
(* each a member of the final contact set, and every member of a set of 3  *)
(* or fewer; its mission rows are the shared mission sentence list in its  *)
(* order.                                                                  *)
(***************************************************************************)
ReportRowsCapped ==
    \A r \in 1..Len(report) :
        /\ Cardinality(report[r].emails) <= 3
        /\ report[r].emails \subseteq emails
        /\ Cardinality(emails) <= 3 => report[r].emails = emails
        /\ Cardinality(report[r].phones) <= 3
        /\ report[r].phones \subseteq phones
        /\ Cardinality(phones) <= 3 => report[r].phones = phones
        /\ report[r].mission_sentences = mission_sentences

\* The report of a crawl that found four e-mail addresses and four phone numbers.
ReportRowsCappedWitness ==
    /\ Len(report) = 1
    /\ Cardinality(emails) = 4 /\ Cardinality(report[1].emails) = 3
    /\ Cardinality(phones) = 4 /\ Cardinality(report[1].phones) = 3
    /\ Len(report[1].mission_sentences) >= 3

(***************************************************************************)
(* C17: only the seed and the links of the seed page are fetched; the      *)
(* links of a linked page are not followed, so a crawl makes at most       *)
(* 1 + (number of links of the seed page) fetches.                         *)
(***************************************************************************)
RECURSIVE TotalFetches(_)
TotalFetches(urls) ==
    IF urls = {} THEN 0
    ELSE LET u == CHOOSE x \in urls : TRUE
         IN  fetches[u] + TotalFetches(urls \ {u})

OnlySeedLinksFetched ==
    /\ DOMAIN jobs \subseteq main_page_links
    /\ \A u \in AllUrls : fetches[u] > 0 => u = base_url \/ u \in main_page_links
    /\ TotalFetches(AllUrls) <= 1 + Cardinality(main_page_links)

\* The crawl has ended: /about, the seed page's only link, was fetched and
\* extracted, and /team, which /about links to, was not.
OnlySeedLinksFetchedWitness ==
    /\ mpc = "done"
    /\ main_page_links = {AboutUrl}
    /\ jobs[AboutUrl].page_content = "ok"
    /\ fetches[AboutUrl] = 1 /\ fetches[TeamUrl] = 0
    /\ TotalFetches(AllUrls) = 2

(***************************************************************************)
(* C18: the mission sentence list is append-only, the sentences of one     *)
(* page are in it in non-decreasing length order, and a worker that finds  *)
(* the list full appends nothing more of its page.                         *)
(***************************************************************************)
\* The mission sentences a page can contribute.
MissionOf(u) ==
    {Strip(PageOf(u).mission_matches[i]) :
        i \in {k \in 1..Len(PageOf(u).mission_matches) :
                  filter_valid_sentence(PageOf(u).mission_matches[k])}}

PastMission(job) == job.pc \in {"count_read", "count_write", "done"}

MissionAppendOnlyOrdered ==
    /\ [][/\ Len(mission_sentences') >= Len(mission_sentences)
          /\ SubSeq(mission_sentences', 1, Len(mission_sentences)) = mission_sentences]_vars
    /\ [](\A u \in AllUrls : \A i, j \in 1..Len(mission_sentences) :
            (i < j /\ mission_sentences[i] \in MissionOf(u)
                   /\ mission_sentences[j] \in MissionOf(u))
            => Len(mission_sentences[i]) <= Len(mission_sentences[j]))
    /\ [][\A l \in DOMAIN jobs :
            /\ (jobs[l].pc = "mission_check" /\ Len(mission_sentences) >= 3
                 /\ jobs'[l] # jobs[l]) => PastMission(jobs'[l])
            /\ PastMission(jobs[l]) =>
                 /\ PastMission(jobs'[l])
                 /\ jobs'[l] # jobs[l] => mission_sentences' = mission_sentences]_vars

\* /team's job appended its shorter sentence, /about's job filled the list, and
\* /team's job left its longer sentence out.
MissionAppendOnlyOrderedWitness ==
    /\ Len(PageMission[TeamUrl]) = 2
    /\ Len(PageMission[TeamUrl][1]) < Len(PageMission[TeamUrl][2])
    /\ TeamUrl \in DOMAIN jobs /\ jobs[TeamUrl].pc = "done"
    /\ mission_sentences =
         <<PageMission[SeedUrl][1], PageMission[TeamUrl][1], PageMission[AboutUrl][1]>>

(***************************************************************************)
(* C19: the visited set only grows, a link is in it before its fetch       *)
(* starts, and a link that fails the check is neither added nor fetched.   *)
(***************************************************************************)
\* No element leaves the visited set.
VisitedGrows == [][visited \subseteq visited']_vars

\* A link whose fetch has started is in visited; a link that is not the seed's
\* and does not hold the seed URL is not added and not fetched; the seed as its
\* own link is not fetched again.
LinksClaimedBeforeFetch ==
    \A l \in DOMAIN jobs :
        /\ (l # base_url /\ (jobs[l].pc = "fetch" \/ fetches[l] > 0)) => l \in visited
        /\ ~Contains(l, base_url) => l \notin visited /\ fetches[l] = 0
        /\ l = base_url => fetches[l] = 1 /\ jobs[l].pc \in {"queued", "done"}

(***************************************************************************)
(* C19, as claimed: in every reachable state the seed, once fetched, is a  *)
(* member of visited.                                                      *)
(***************************************************************************)
VisitedHoldsSeedOnceFetched ==
    /\ VisitedGrows
    /\ [](fetches[base_url] > 0 => base_url \in visited)
    /\ []LinksClaimedBeforeFetch

(***************************************************************************)
(* C19, amended: the seed is a member of visited from visited.add(base_url)*)
(* on, the statement that follows its successful fetch; while that         *)
(* statement has not run, and after a failed seed fetch, visited is empty. *)
(***************************************************************************)
VisitedHoldsSeedOnceMarked ==
    /\ VisitedGrows
    /\ [](IF mpc \in {"fetch_seed", "mark_seed", "aborted"}
          THEN visited = {}
          ELSE base_url \in visited /\ main_page_content = "ok")
    /\ []LinksClaimedBeforeFetch

\* A job is about to fetch the link it claimed, the job of a link to another
\* site has ended and so has the job of the seed's link to itself.
VisitedHoldsSeedOnceMarkedWitness ==
    /\ \E l \in DOMAIN jobs : jobs[l].pc = "fetch" /\ l \in visited /\ fetches[l] = 0
    /\ OtherUrl \in DOMAIN jobs /\ jobs[OtherUrl].pc = "done" /\ OtherUrl \notin visited
    /\ base_url \in DOMAIN jobs /\ jobs[base_url].pc = "done"

====
